---- MODULE Spec2Model ----
(***************************************************************************)
(* MoffittBoard: check-in / check-out time accounting and leaderboard      *)
(* ranking, as implemented by the five revisions of the page component:    *)
(*   "page1"  src/src/app/page.tsx lines 1-386   (first revision)          *)
(*   "page2"  src/src/app/page.tsx lines 387-780 (second revision)         *)
(*   "p000"   src/unnamed/part_000                                         *)
(*   "p001"   src/unnamed/part_001                                         *)
(*   "p002"   src/unnamed/part_002                                         *)
(* One browser client and one stored user record.  Every handler is split  *)
(* at its await on the store: the synchronous prefix (guard, Date.now(),   *)
(* request body computed from the closure's loggedInUser) is one action,   *)
(* the store applying the request followed by the handler's continuation   *)
(* is another.  Time is the client's clock in milliseconds.                *)
(***************************************************************************)
EXTENDS Integers, Sequences, FiniteSets, TLC

VARIABLES rev, mono, skew, db, loggedInUser, lastUpdateTime, tick, pending,
          ev, evAt, sessT, sessP, usersList, rank,
          tz, lastLeaderboardReset, shouldReset,
          table, calls, session, message,
          mounted, timeouts, other, feed, timers

vars == <<rev, mono, skew, db, loggedInUser, lastUpdateTime, tick, pending,
          ev, evAt, sessT, sessP, usersList, rank,
          tz, lastLeaderboardReset, shouldReset,
          table, calls, session, message,
          mounted, timeouts, other, feed, timers>>

\* the state of the check-in / check-out accounting
acctVars == <<rev, mono, skew, db, loggedInUser, lastUpdateTime, tick, pending,
              ev, evAt, sessT, sessP>>

\* the same without the ghost ev, the name of the step just taken
acctNoEv == <<rev, mono, skew, db, loggedInUser, lastUpdateTime, tick, pending,
              evAt, sessT, sessP>>

\* the input and the results of the rank computation
rankVars == <<usersList, rank>>

\* per browser: the local timezone offset, the localStorage item
\* 'lastLeaderboardReset' and the last result of shouldResetLeaderboard()
resetVars == <<tz, lastLeaderboardReset, shouldReset>>

\* the users table with all its columns, the requests on it that are in
\* flight, and per browser the login flow and the message banner
tableVars == <<table, calls, session, message>>

\* the same without the banner
loginVars == <<table, calls, session>>

\* per browser: whether the page component is mounted, and the instants at
\* which its pending message-clearing timeouts are due; the intervals the
\* tick effect of browser Me has registered with setInterval
viewVars == <<mounted, timeouts, timers>>

(* ------------------------------ bounds -------------------------------- *)
MaxSteps == 3
MaxPending == 2
MaxSkew == 1
MaxLen == 3
MaxSpan == 3
MaxRows == 3
MaxCalls == 2
MaxWait == 2
MaxQueue == 2
MaxChanges == 2
MaxRuns == 3

(* ----------------------------- constants ------------------------------ *)
MinuteMs == 60000
Step == MinuteMs \div 2
Epoch == 10 * MinuteMs
NoTime == 0 - 1
Revs == {"page1", "page2", "p000", "p001", "p002"}
InitTotals == {0, 10}
UserId == 1
RankTotals == {10, 30}
RankIds == 1 .. MaxLen + 1
\* a rank that has not been looked up yet
NoRank == 0 - 1
SecondMs == 1000
\* setTimeout(() => setMessage(null), 5000)
MessageMs == 5 * SecondMs
HourMs == 60 * MinuteMs
DayMs == 24 * HourMs
\* America/Los_Angeles on standard time: UTC-8
LaOffset == 0 - 8 * HourMs
\* the browsers' local zones: Honolulu, Los Angeles, UTC
TzOffsets == {0 - 10 * HourMs, LaOffset, 0}
Clients == {1, 2}
\* emails and display names as token sequences, so that split('@') and
\* trim() have something to do
Emails == {<<"ann", "@", "berkeley.edu">>, <<"bo", ".", "li", "@", "berkeley.edu">>}
NameInputs == {<<"Z">>, <<" ", "Z", " ">>, <<" ">>}
\* the value the store gives isCheckedIn when an insert does not send it:
\* the column default, which no file of the repository declares
ColumnDefault == {"false", "null"}
\* an instant at which it is midnight in Los Angeles
LaMidnight == 2 * DayMs - LaOffset
\* the instants considered around it, 4 hours apart
Instants == {LaMidnight + j * 4 * HourMs : j \in (0 - MaxSpan) .. MaxSpan}

(* ------------------------------ records ------------------------------- *)
\* display_name is the store's column, displayName the property that
\* handleUpdateDisplayName adds to the client's objects; <<>> when absent
User(i, ts, ci, cit) ==
    [id |-> i, timeSpent |-> ts, isCheckedIn |-> ci, checkInTime |-> cit,
     display_name |-> <<>>, displayName |-> <<>>]

NoUser == User(0, 0, FALSE, NoTime)

\* a row of the users table (interface User); isCheckedIn is "true",
\* "false" or "null", an absent display_name is <<>>
Row(i, e, n, dn, ts, ci, cit) ==
    [id |-> i, email |-> e, name |-> n, display_name |-> dn,
     timeSpent |-> ts, isCheckedIn |-> ci, checkInTime |-> cit]

\* email.split('@')[0]
RECURSIVE BeforeAt(_)
BeforeAt(s) ==
    IF s = <<>> \/ Head(s) = "@" THEN <<>>
    ELSE <<Head(s)>> \o BeforeAt(Tail(s))

RECURSIVE TrimStart(_)
TrimStart(s) ==
    IF s # <<>> /\ Head(s) = " " THEN TrimStart(Tail(s)) ELSE s

RECURSIVE TrimEnd(_)
TrimEnd(s) ==
    IF s # <<>> /\ s[Len(s)] = " " THEN TrimEnd(SubSeq(s, 1, Len(s) - 1)) ELSE s

\* String.prototype.trim()
Trim(s) == TrimEnd(TrimStart(s))

NoSession == [email |-> <<>>, dialog |-> FALSE, userId |-> 0]

Call(c, op, e, dn) == [c |-> c, op |-> op, email |-> e, dn |-> dn]

Now == mono + skew

\* JS truthiness of a checkInTime: null, undefined and 0 are falsy
Truthy(t) == t # NoTime /\ t # 0

\* Math.floor((now - checkInTime) / 60000)
TimeElapsed(now, cit) == (now - cit) \div MinuteMs

\* dn: the display name a display-name edit sends
Req(op, snap, at, k) ==
    [op |-> op, snap |-> snap, at |-> at, k |-> k, dn |-> <<>>]

\* fetchUsers only uses its closure's loggedInUser for null-ness and the id;
\* k tells what the caller does after  await fetchUsers():
\* 0 nothing, 1 setMessage(success), 2 setMessage(success) and setTimeout
FetchThen(lu, k) == Req("fetch", User(lu.id, 0, FALSE, NoTime), 0, k)

FetchReq(lu) == FetchThen(lu, 0)

\* the browser the accounting model follows
Me == 1

NoTick == [on |-> FALSE, snap |-> NoUser, lut |-> 0, due |-> 0]

\* setInterval(updateTime, 60000) with the effect's closure (loggedInUser,
\* lastUpdateTime); the callback first runs 60000 ms after registration
Registered(lu, lut) ==
    [on |-> TRUE, snap |-> lu, lut |-> lut, due |-> mono + MinuteMs]

\* A second browser instance of the same page, before its session is
\* loaded: its loggedInUser, lastUpdateTime, registered interval, requests
\* in flight, users list and banner
NoOther == [loggedInUser |-> NoUser, lastUpdateTime |-> Epoch, tick |-> NoTick,
            pending |-> {}, usersList |-> <<>>, message |-> "none"]

\* the realtime channel before any change of the users table: no event
\* waits for delivery; lastId is the last id the table's sequence gave out,
\* changes the number of changes the table has seen
NoFeed == [events |-> <<>>, lastId |-> 0, changes |-> 0]

\* The timer table of browser Me as far as the tick effect uses it:
\* registered are the handles of the intervals that are set, intervalId is
\* the variable of the effect's latest run (0: undefined), last the last
\* handle setInterval returned
NoTimers == [registered |-> {}, intervalId |-> 0, last |-> 0]

\* a cleanup function that clears nothing
tickCleanup_keeps(t) == t

\* return () => { if (intervalId) clearInterval(intervalId) }
tickCleanup(t) ==
    IF t.intervalId # 0 THEN [t EXCEPT !.registered = @ \ {t.intervalId}] ELSE t

(* ---------------- the periodic elapsed-time computation ---------------- *)
\* Each operator gives the store writes the accounting callback issues when
\* it runs with closure (lu, lut): none when a guard returns early.

updateTime_page1(lu, lut) ==
    IF lu.isCheckedIn /\ Truthy(lu.checkInTime)
    THEN {Req("tick", lu, Now, TimeElapsed(Now, lu.checkInTime))}
    ELSE {}

tick_p001(lu, lut) ==
    {Req("tick", lu, Now,
         TimeElapsed(Now, IF Truthy(lu.checkInTime) THEN lu.checkInTime ELSE 0))}

updateTime_p002(lu, lut) ==
    IF lu.isCheckedIn /\ Truthy(lu.checkInTime) /\ TimeElapsed(Now, lut) >= 1
    THEN {Req("tick", lu, Now, TimeElapsed(Now, lut))}
    ELSE {}

updateTime_p000(lu, lut) ==
    IF TimeElapsed(Now, IF Truthy(lu.checkInTime) THEN lu.checkInTime ELSE Now) > 0
    THEN {Req("tick", lu, Now, 1)}
    ELSE {}

updateTime(lu, lut) ==
    CASE rev = "page1" -> updateTime_page1(lu, lut)
      [] rev = "p001"  -> tick_p001(lu, lut)
      [] rev = "p002"  -> updateTime_p002(lu, lut)
      [] rev = "p000"  -> updateTime_p000(lu, lut)
      [] OTHER         -> {}

(* ------------------- effects re-run after a render --------------------- *)
\* old/new: loggedInUser before and after the state update; idc: the update
\* installed a new object; lut/lutc: lastUpdateTime after the update and
\* whether it changed.  Result: the interval left registered and the
\* requests the re-run effects issue.

effects_page1(old, new, idc, lut, lutc) ==
    IF idc
    THEN [tick |-> IF new.isCheckedIn THEN Registered(new, lut) ELSE NoTick,
          reqs |-> (IF new.isCheckedIn THEN updateTime_page1(new, lut) ELSE {})
                   \cup {FetchReq(new)}]
    ELSE [tick |-> tick, reqs |-> {}]

effects_p001(old, new, idc, lut, lutc) ==
    [tick |-> IF new.isCheckedIn # old.isCheckedIn
              THEN (IF new.isCheckedIn THEN Registered(new, lut) ELSE NoTick)
              ELSE tick,
     reqs |-> {}]

effects_p002(old, new, idc, lut, lutc) ==
    IF idc \/ lutc
    THEN [tick |-> IF new.isCheckedIn THEN Registered(new, lut) ELSE NoTick,
          reqs |-> (IF new.isCheckedIn THEN updateTime_p002(new, lut) ELSE {})
                   \cup (IF idc THEN {FetchReq(new)} ELSE {})]
    ELSE [tick |-> tick, reqs |-> {}]

effects_p000(old, new, idc, lut, lutc) ==
    [tick |-> IF new.isCheckedIn # old.isCheckedIn
                 \/ new.checkInTime # old.checkInTime
              THEN (IF new.isCheckedIn /\ Truthy(new.checkInTime)
                    THEN Registered(new, lut) ELSE NoTick)
              ELSE tick,
     reqs |-> IF idc THEN {FetchReq(new)} ELSE {}]

Effects(old, new, idc, lut, lutc) ==
    CASE rev = "page1" -> effects_page1(old, new, idc, lut, lutc)
      [] rev = "p001"  -> effects_p001(old, new, idc, lut, lutc)
      [] rev = "p002"  -> effects_p002(old, new, idc, lut, lutc)
      [] rev = "p000"  -> effects_p000(old, new, idc, lut, lutc)
      [] OTHER         -> [tick |-> tick, reqs |-> {}]

(* ------------------------- the store's updates ------------------------- *)
\* The row after  .update({...}).eq('id', loggedInUser.id)  of request r.

checkInRow_page1(row, r) ==
    [row EXCEPT !.isCheckedIn = TRUE, !.checkInTime = r.at]

checkInRow_p000(row, r) ==
    [row EXCEPT !.isCheckedIn = TRUE, !.checkInTime = r.at,
                !.timeSpent = r.snap.timeSpent]

checkOutRow_page1(row, r) ==
    [row EXCEPT !.isCheckedIn = FALSE, !.checkInTime = NoTime,
                !.timeSpent = r.snap.timeSpent + r.k]

\* checkInTime: undefined  is dropped from the JSON body of the update
checkOutRow_page2(row, r) ==
    [row EXCEPT !.isCheckedIn = FALSE, !.timeSpent = r.snap.timeSpent + r.k]

checkOutRow_p000(row, r) ==
    [row EXCEPT !.isCheckedIn = FALSE, !.checkInTime = NoTime]

tickRow_page1(row, r) ==
    [row EXCEPT !.timeSpent = r.snap.timeSpent + r.k, !.checkInTime = r.at]

\* an update that adds to the stored value instead of replacing it
updateTimeInDatabase_increment(row, r) ==
    [row EXCEPT !.timeSpent = row.timeSpent + r.k]

\* .update({ timeSpent: newTotalTime }).eq('id', userId)
updateTimeInDatabase(row, r) ==
    [row EXCEPT !.timeSpent = r.snap.timeSpent + r.k]

\* .update({display_name: newDisplayName.trim()})
renameRow(row, r) == [row EXCEPT !.display_name = r.dn]

\* a sign-out that checks the user out in the store
signOutRow_checksOut(row, r) ==
    [row EXCEPT !.isCheckedIn = FALSE, !.checkInTime = NoTime]

\* handleSignOut calls supabase.auth.signOut() only: no update of the
\* users table is sent
signOutRow(row, r) == row

StoreRow(row, r) ==
    CASE r.op = "rename" -> renameRow(row, r)
      [] r.op = "signOut" -> signOutRow(row, r)
      [] r.op = "checkIn" ->
           IF rev \in {"page1", "p001"} THEN checkInRow_page1(row, r)
                                        ELSE checkInRow_p000(row, r)
      [] r.op = "checkOut" ->
           IF rev = "page2" THEN checkOutRow_page2(row, r)
           ELSE IF rev = "p000" THEN checkOutRow_p000(row, r)
           ELSE checkOutRow_page1(row, r)
      [] r.op = "tick" ->
           IF rev = "page1" THEN tickRow_page1(row, r)
                            ELSE updateTimeInDatabase(row, r)
      [] OTHER -> row

(* --------------------- continuations after the await ------------------- *)
\* lu: the client's loggedInUser when the response arrives; data: the row
\* the store returned.  Result: the new loggedInUser.

checkInDone(lu, data, r) ==
    CASE rev = "page2" -> IF lu = NoUser THEN lu
                          ELSE [lu EXCEPT !.checkInTime = r.at, !.isCheckedIn = TRUE]
      [] rev = "p000"  -> [data EXCEPT !.checkInTime = r.at, !.isCheckedIn = TRUE]
      [] OTHER         -> [data EXCEPT !.checkInTime = r.at]

checkOutDone(lu, data, r) ==
    CASE rev = "page2" -> [r.snap EXCEPT !.isCheckedIn = FALSE,
                                         !.timeSpent = r.snap.timeSpent + r.k,
                                         !.checkInTime = NoTime]
      [] rev = "p000"  -> [data EXCEPT !.isCheckedIn = FALSE, !.checkInTime = NoTime]
      [] OTHER         -> data

tickDone(lu, data, r) ==
    CASE rev = "page1" -> IF lu = NoUser THEN lu
                          ELSE [lu EXCEPT !.timeSpent = r.snap.timeSpent + r.k,
                                          !.checkInTime = r.at]
      [] rev = "p002"  -> IF lu = NoUser THEN lu
                          ELSE [lu EXCEPT !.timeSpent = lu.timeSpent + r.k]
      [] OTHER         -> lu

fetchUsers(lu, data, r) ==
    IF rev # "page2" /\ r.snap.id # 0 /\ data.id = r.snap.id THEN data ELSE lu

\* setLoggedInUser(prevUser => ({...prevUser, displayName: data.display_name}))
renameDone(lu, data, r) ==
    IF lu = NoUser THEN lu ELSE [lu EXCEPT !.displayName = data.display_name]

\* setUsers(prevUsers => prevUsers.map(user => user.id === loggedInUser.id
\*   ? {...user, displayName: data.display_name} : user))
renameUsers(list, data, r) ==
    [i \in DOMAIN list |->
        IF list[i].id = r.snap.id
        THEN [list[i] EXCEPT !.displayName = data.display_name]
        ELSE list[i]]

Done(lu, data, r) ==
    CASE r.op = "checkIn"  -> checkInDone(lu, data, r)
      [] r.op = "rename"   -> renameDone(lu, data, r)
      [] r.op = "checkOut" -> checkOutDone(lu, data, r)
      [] r.op = "tick"     -> tickDone(lu, data, r)
      [] r.op = "signOut"  -> NoUser
      [] OTHER             -> fetchUsers(lu, data, r)

\* whether the continuation calls setLoggedInUser with a new object
DoneSets(lu, r) ==
    CASE r.op = "rename" -> lu # NoUser
      [] r.op = "signOut" -> TRUE
      [] r.op \in {"checkIn", "checkOut"} -> rev # "page2" \/ r.op = "checkOut" \/ lu # NoUser
      [] r.op = "tick"  -> rev \in {"page1", "p002"} /\ lu # NoUser
      [] OTHER          -> rev # "page2" /\ r.snap.id # 0

\* setLastUpdateTime(now) in the continuation
DoneLut(lut, r) ==
    IF (rev \in {"page2", "p002"} /\ r.op = "checkIn") \/ (rev = "p002" /\ r.op = "tick")
    THEN r.at ELSE lut

\* the fetchUsers() the continuation ends with
DoneFetch(r) ==
    IF rev = "p000" /\ r.op \in {"checkIn", "checkOut"}
    THEN {FetchThen(r.snap, 1)}
    ELSE IF (rev \in {"p000", "p001", "p002"} /\ r.op \in {"checkIn", "checkOut", "tick"})
            \/ r.op = "rename"
    THEN {FetchReq(r.snap)} ELSE {}

\* the banner (message, or error in the older revisions; part_001 has
\* none) after the continuation of a successful request
DoneMsg(m, r) ==
    IF (r.op = "fetch" /\ r.k >= 1) \/ r.op = "rename" THEN "success" ELSE m

\* a catch block that shows nothing
FailMsg_silent(m, r) == m

\* the banner after the catch block of a failed request
FailMsg(m, r) ==
    CASE rev = "p001" -> m
      [] r.op \in {"checkIn", "checkOut", "rename"} -> "error"
      [] r.op = "signOut" -> IF rev = "p000" THEN "error" ELSE m
      [] r.op = "tick" -> IF rev = "p000" THEN m ELSE "error"
      [] r.op = "fetch" -> IF r.k >= 1 THEN "success" ELSE "error"
      [] OTHER -> m

\* setMessage(null) / setError(null) at the start of a handler
StartMsg(m) == IF rev = "p001" THEN m ELSE "none"

(* ------------------------------ actions -------------------------------- *)
\* a browser in Los Angeles that has not evaluated the reset check
InitNoReset ==
    /\ tz = [c \in Clients |-> LaOffset]
    /\ lastLeaderboardReset = [c \in Clients |-> NoTime]
    /\ shouldReset = [c \in Clients |-> "unknown"]

\* no table request in flight, nobody in the login flow, no banner
InitNoTable ==
    /\ table = <<>>
    /\ calls = {}
    /\ session = [c \in Clients |-> NoSession]
    /\ message = [c \in Clients |-> "none"]
    /\ mounted = [c \in Clients |-> TRUE]
    /\ timeouts = [c \in Clients |-> {}]
    /\ other = NoOther
    /\ feed = NoFeed
    /\ timers = NoTimers

Init ==
    /\ rev \in Revs
    /\ mono = Epoch
    /\ skew = 0
    /\ db \in {User(UserId, p, FALSE, NoTime) : p \in InitTotals}
    /\ loggedInUser = NoUser
    /\ lastUpdateTime = Epoch
    /\ tick = NoTick
    /\ pending = {}
    /\ ev = "init"
    /\ evAt = 0
    /\ sessT = NoTime
    /\ sessP = 0
    /\ usersList = <<>>
    /\ rank = [i \in RankIds |-> NoRank]
    /\ InitNoReset
    /\ InitNoTable

\* Requests in flight form a set: two fetches of the same closure are
\* answered together, so one whose caller goes on after it stands for both.
InFlight(reqs) ==
    {r \in reqs : ~(/\ r.op = "fetch" /\ r.k = 0
                    /\ \E q \in reqs : q.op = "fetch" /\ q.k > 0 /\ q.snap = r.snap)}

\* a state update of the component followed by the effects it re-runs
Render(new, idc, lut, reqs) ==
    LET e == Effects(loggedInUser, new, idc, lut, lut # lastUpdateTime) IN
    /\ loggedInUser' = new
    /\ lastUpdateTime' = lut
    /\ tick' = e.tick
    /\ pending' = InFlight(reqs \cup e.reqs)
    /\ Cardinality(pending') <= MaxPending

\* at most cap requests are in flight after reqs have been sent
IssueUpTo(reqs, cap) ==
    /\ pending' = InFlight(pending \cup reqs)
    /\ Cardinality(pending') <= cap

Issue(reqs) == IssueUpTo(reqs, MaxPending)

\* the session's user row is loaded: handleLogin / handleUserSession find
\* the existing record and call setLoggedInUser(existingUser)
handleLogin ==
    /\ loggedInUser = NoUser
    /\ Render(db, TRUE, lastUpdateTime, pending)
    /\ ev' = "other" /\ evAt' = 0
    /\ UNCHANGED <<rev, mono, skew, db, sessT, sessP>>
    /\ message' = [message EXCEPT ![Me] = IF rev \in {"page1", "p002"} THEN "none" ELSE @]
    /\ UNCHANGED <<feed, other, viewVars, rankVars, resetVars, loginVars>>

\* the Check In button is rendered while !loggedInUser.isCheckedIn
handleCheckIn ==
    /\ loggedInUser # NoUser
    /\ ~loggedInUser.isCheckedIn
    /\ Issue({Req("checkIn", loggedInUser, Now, 0)})
    /\ ev' = "other" /\ evAt' = 0
    /\ UNCHANGED <<rev, mono, skew, db, loggedInUser, lastUpdateTime, tick,
                   sessT, sessP>>
    /\ message' = [message EXCEPT ![Me] = StartMsg(@)]
    /\ UNCHANGED <<feed, other, viewVars, rankVars, resetVars, loginVars>>

\* the Check Out button is rendered while loggedInUser.isCheckedIn
checkOutClick(cap) ==
    /\ loggedInUser # NoUser
    /\ loggedInUser.isCheckedIn
    /\ Truthy(loggedInUser.checkInTime)
    /\ IssueUpTo({Req("checkOut", loggedInUser, Now,
                      IF rev = "p000" THEN 0
                      ELSE TimeElapsed(Now, loggedInUser.checkInTime))}, cap)
    /\ ev' = "other" /\ evAt' = 0
    /\ UNCHANGED <<rev, mono, skew, db, loggedInUser, lastUpdateTime, tick,
                   sessT, sessP>>
    /\ message' = [message EXCEPT ![Me] = StartMsg(@)]
    /\ UNCHANGED <<feed, other, viewVars, rankVars, resetVars, loginVars>>

handleCheckOut == checkOutClick(MaxPending)

\* the 60-second interval fires with the closure of the effect run that
\* registered it, and is re-armed 60000 ms later
intervalFires(cap) ==
    /\ tick.on
    /\ mono >= tick.due
    /\ LET reqs == updateTime(tick.snap, tick.lut)
           rearmed == [tick EXCEPT !.due = mono + MinuteMs]
       IN IF rev = "p000" /\ reqs # {} /\ loggedInUser # NoUser
          THEN LET new == [loggedInUser EXCEPT
                              !.timeSpent = tick.snap.timeSpent + 1,
                              !.checkInTime = Now]
                   e == effects_p000(loggedInUser, new, TRUE, lastUpdateTime, FALSE)
               IN /\ loggedInUser' = new
                  /\ tick' = IF e.tick = tick THEN rearmed ELSE e.tick
                  /\ pending' = InFlight(pending \cup reqs \cup e.reqs)
                  /\ Cardinality(pending') <= cap
          ELSE /\ loggedInUser' = loggedInUser
               /\ tick' = rearmed
               /\ IssueUpTo(reqs, cap)
    /\ ev' = "other" /\ evAt' = 0
    /\ UNCHANGED <<rev, mono, skew, db, lastUpdateTime, sessT, sessP>>
    /\ UNCHANGED <<feed, other, viewVars, rankVars, resetVars, tableVars>>

TickFire == intervalFires(MaxPending)

\* setInterval(fetchUsers, 5000)
Poll ==
    /\ rev = "p000"
    /\ Issue({FetchReq(loggedInUser)})
    /\ ev' = "other" /\ evAt' = 0
    /\ UNCHANGED <<rev, mono, skew, db, loggedInUser, lastUpdateTime, tick,
                   sessT, sessP>>
    /\ UNCHANGED <<feed, other, viewVars, rankVars, resetVars, tableVars>>

\* the store applies request r and the handler resumes after its await
Complete(r) ==
    LET row == StoreRow(db, r)
        new == Done(loggedInUser, row, r)
    IN /\ db' = row
       /\ IF DoneSets(loggedInUser, r) \/ DoneLut(lastUpdateTime, r) # lastUpdateTime
          THEN Render(new, DoneSets(loggedInUser, r), DoneLut(lastUpdateTime, r),
                      (pending \ {r}) \cup DoneFetch(r))
          ELSE /\ pending' = InFlight((pending \ {r}) \cup DoneFetch(r))
               /\ Cardinality(pending') <= MaxPending
               /\ UNCHANGED <<loggedInUser, lastUpdateTime, tick>>
       /\ ev' = (IF r.op \in {"checkIn", "checkOut", "fetch", "signOut"}
                 THEN r.op ELSE "other")
       /\ evAt' = (IF r.op \in {"checkIn", "checkOut"} THEN r.at ELSE 0)
       /\ IF r.op = "checkIn" /\ ~db.isCheckedIn
          THEN sessT' = r.at /\ sessP' = row.timeSpent
          ELSE UNCHANGED <<sessT, sessP>>
       /\ UNCHANGED <<rev, mono, skew>>
       /\ message' = [message EXCEPT ![Me] = DoneMsg(@, r)]
       /\ usersList' = (CASE r.op = "fetch"  -> <<row>>
                          [] r.op = "rename" -> renameUsers(usersList, row, r)
                          [] OTHER           -> usersList)
       /\ UNCHANGED <<feed, other, viewVars, rank, resetVars, loginVars>>

\* the name of the step in which the store rejects a write
FailedEv(op) ==
    CASE op = "checkIn"  -> "checkInFailed"
      [] op = "checkOut" -> "checkOutFailed"
      [] op = "tick"     -> "tickFailed"
      [] op = "rename"   -> "renameFailed"
      [] op = "reset"    -> "resetFailed"
      [] OTHER           -> "other"

\* the store reports an error for request r
Fail(r) ==
    /\ pending' = InFlight((pending \ {r})
                    \cup (IF rev = "p000" /\ r.op = "tick" THEN {FetchReq(r.snap)} ELSE {}))
    /\ Cardinality(pending') <= MaxPending
    /\ ev' = FailedEv(r.op) /\ evAt' = 0
    /\ UNCHANGED <<rev, mono, skew, db, loggedInUser, lastUpdateTime, tick,
                   sessT, sessP>>
    /\ message' = [message EXCEPT ![Me] = FailMsg(@, r)]
    /\ UNCHANGED <<feed, other, viewVars, rankVars, resetVars, loginVars>>

Advance ==
    /\ mono < Epoch + MaxSteps * Step
    /\ mono' = mono + Step
    /\ ev' = "other" /\ evAt' = 0
    /\ UNCHANGED <<rev, skew, db, loggedInUser, lastUpdateTime, tick, pending,
                   sessT, sessP>>
    /\ UNCHANGED <<feed, other, viewVars, rankVars, resetVars, tableVars>>

StoreResponds == \E r \in pending : Complete(r)

StoreFails == \E r \in pending : Fail(r)

Next ==
    \/ handleLogin
    \/ handleCheckIn
    \/ handleCheckOut
    \/ TickFire
    \/ Poll
    \/ StoreResponds
    \/ StoreFails
    \/ Advance

Spec == Init /\ [][Next]_vars

\* the client's wall clock is set back (Date.now() is not monotonic);
\* timers keep running on the monotonic clock
ClockBack ==
    /\ skew > 0 - MaxSkew * Step
    /\ skew' = skew - Step
    /\ ev' = "other" /\ evAt' = 0
    /\ UNCHANGED <<rev, mono, db, loggedInUser, lastUpdateTime, tick, pending,
                   sessT, sessP>>
    /\ UNCHANGED <<feed, other, viewVars, rankVars, resetVars, tableVars>>

NextSkew ==
    \/ handleLogin
    \/ handleCheckIn
    \/ handleCheckOut
    \/ TickFire
    \/ Poll
    \/ StoreResponds
    \/ StoreFails
    \/ Advance
    \/ ClockBack

SpecSkew == Init /\ [][NextSkew]_vars

(* -------------------------- display-name edit -------------------------- *)
\* the edit form is submitted with newDisplayName = input
handleUpdateDisplayName(input) ==
    /\ rev = "p000"
    /\ loggedInUser # NoUser
    /\ Trim(input) # <<>>
    /\ Issue({[Req("rename", loggedInUser, Now, 0) EXCEPT !.dn = Trim(input)]})
    /\ message' = [message EXCEPT ![Me] = "none"]
    /\ ev' = "other" /\ evAt' = 0
    /\ UNCHANGED <<rev, mono, skew, db, loggedInUser, lastUpdateTime, tick,
                   sessT, sessP>>
    /\ UNCHANGED <<feed, other, viewVars, rankVars, resetVars, loginVars>>

EditName == \E input \in NameInputs : handleUpdateDisplayName(input)

InitEdit == Init /\ rev = "p000"

NextEdit ==
    \/ handleLogin
    \/ handleCheckIn
    \/ handleCheckOut
    \/ TickFire
    \/ Poll
    \/ StoreResponds
    \/ StoreFails
    \/ Advance
    \/ EditName

SpecEdit == InitEdit /\ [][NextEdit]_vars


(* ------------------------------- sign-out ------------------------------ *)
\* The Sign Out button of the user card: await supabase.auth.signOut() is
\* the request; its continuation is setLoggedInUser(null) and
\* router.refresh(), which keeps the component's state.
handleSignOut ==
    /\ rev \in {"p000", "page2"}
    /\ loggedInUser # NoUser
    /\ Issue({Req("signOut", loggedInUser, Now, 0)})
    /\ ev' = "other" /\ evAt' = 0
    /\ UNCHANGED <<rev, mono, skew, db, loggedInUser, lastUpdateTime, tick,
                   sessT, sessP>>
    /\ UNCHANGED <<feed, other, viewVars, rankVars, resetVars, tableVars>>

InitSignOut == Init /\ rev \in {"p000", "page2"}

NextSignOut ==
    \/ handleLogin
    \/ handleCheckIn
    \/ handleCheckOut
    \/ TickFire
    \/ Poll
    \/ StoreResponds
    \/ StoreFails
    \/ Advance
    \/ handleSignOut

SpecSignOut == InitSignOut /\ [][NextSignOut]_vars

(* --------------------------- rank computation -------------------------- *)
\* an unstable sort step: u goes in front of elements of equal timeSpent
RECURSIVE InsertSorted_unstable(_, _)
InsertSorted_unstable(u, sorted) ==
    IF sorted = <<>> THEN <<u>>
    ELSE IF Head(sorted).timeSpent > u.timeSpent
         THEN <<Head(sorted)>> \o InsertSorted_unstable(u, Tail(sorted))
         ELSE <<u>> \o sorted

\* one step of a stable sort by (a, b) => b.timeSpent - a.timeSpent: u goes
\* behind every element that does not have a smaller timeSpent
RECURSIVE InsertSorted(_, _)
InsertSorted(u, sorted) ==
    IF sorted = <<>> THEN <<u>>
    ELSE IF Head(sorted).timeSpent >= u.timeSpent
         THEN <<Head(sorted)>> \o InsertSorted(u, Tail(sorted))
         ELSE <<u>> \o sorted

\* [...usersList].sort((a, b) => b.timeSpent - a.timeSpent)
RECURSIVE SortByTimeSpent(_, _)
SortByTimeSpent(list, sorted) ==
    IF list = <<>> THEN sorted
    ELSE SortByTimeSpent(Tail(list), InsertSorted(Head(list), sorted))

\* Array.prototype.findIndex(user => user.id === userId): 0-based, -1 if absent
RECURSIVE FindIndex(_, _, _)
FindIndex(list, userId, from) ==
    IF list = <<>> THEN 0 - 1
    ELSE IF Head(list).id = userId THEN from
    ELSE FindIndex(Tail(list), userId, from + 1)

getUserRank(userId, list) ==
    LET sortedUsers == SortByTimeSpent(list, <<>>)
        index == FindIndex(sortedUsers, userId, 0)
    IN IF index = 0 - 1 THEN Len(list) ELSE index + 1

\* the lists a fetch can return: rows with distinct ids
RankLists ==
    UNION {{l \in [1 .. n -> {User(i, t, FALSE, NoTime) : i \in 1 .. MaxLen, t \in RankTotals}] :
              \A a, b \in 1 .. n : a # b => l[a].id # l[b].id} : n \in 0 .. MaxLen}

InitRank ==
    /\ rev \in {"page2", "p000"}
    /\ mono = Epoch
    /\ skew = 0
    /\ db = User(UserId, 0, FALSE, NoTime)
    /\ loggedInUser = NoUser
    /\ lastUpdateTime = Epoch
    /\ tick = NoTick
    /\ pending = {}
    /\ ev = "init"
    /\ evAt = 0
    /\ sessT = NoTime
    /\ sessP = 0
    /\ usersList \in RankLists
    /\ rank = [i \in RankIds |-> NoRank]
    /\ InitNoReset
    /\ InitNoTable

\* Rank #{getUserRank(loggedInUser.id, users)}
RankLookup ==
    /\ \E i \in RankIds : rank' = [rank EXCEPT ![i] = getUserRank(i, usersList)]
    /\ UNCHANGED usersList
    /\ UNCHANGED <<feed, other, viewVars, acctVars, resetVars, tableVars>>

NextRank == RankLookup

SpecRank == InitRank /\ [][NextRank]_vars


\* a table that lists the rows in the order of the users array
TableRows_unsorted(list) == list

\* users.sort((a, b) => b.timeSpent - a.timeSpent) of the leaderboard table:
\* Array.prototype.sort orders the users array itself and returns it
TableRows(list) == SortByTimeSpent(list, <<>>)

\* One render of the page in the order of the JSX: the table body sorts
\* users in place and maps the rows, then the user card looks up the rank
\* of the logged-in user i in the same array.
RenderPage ==
    /\ usersList' = TableRows(usersList)
    /\ \E i \in RankIds : rank' = [rank EXCEPT ![i] = getUserRank(i, usersList')]
    /\ ev' = "render"
    /\ UNCHANGED <<feed, other, viewVars, acctNoEv, resetVars, tableVars>>

InitPage == InitRank /\ rev = "p000"

NextPage == RenderPage

SpecPage == InitPage /\ [][NextPage]_vars

(* ------------------------- the daily reset check ----------------------- *)
\* new Date().toLocaleString("en-US", {timeZone: "America/Los_Angeles"}):
\* the Los Angeles wall-clock fields of instant t, to the second
toLocaleStringLA(t) == ((t + LaOffset) \div SecondMs) * SecondMs

\* new Date(pstDate): the string carries no zone, so its fields are read as
\* wall-clock time of the browser's local zone
parseLocal(wall, offset) == wall - offset

\* resetTime.setHours(0, 0, 0, 0): midnight of t's day in the local zone
setHoursZero(t, offset) == ((t + offset) \div DayMs) * DayMs - offset

shouldResetLeaderboard(now, offset, lastReset) ==
    LET pstDate == toLocaleStringLA(now)
        currentTime == parseLocal(pstDate, offset)
        resetTime == setHoursZero(currentTime, offset)
    IN IF lastReset = NoTime THEN TRUE ELSE lastReset < resetTime

\* browsers in any zone, each with its own localStorage, at one instant
InitShould ==
    /\ rev = "p000"
    /\ mono \in Instants
    /\ skew = 0
    /\ db = User(UserId, 0, FALSE, NoTime)
    /\ loggedInUser = NoUser
    /\ lastUpdateTime = mono
    /\ tick = NoTick
    /\ pending = {}
    /\ ev = "init"
    /\ evAt = 0
    /\ sessT = NoTime
    /\ sessP = 0
    /\ usersList = <<>>
    /\ rank = [i \in RankIds |-> NoRank]
    /\ tz \in [Clients -> TzOffsets]
    /\ lastLeaderboardReset \in
          [Clients -> {NoTime} \cup {t \in Instants : t <= mono}]
    /\ shouldReset = [c \in Clients |-> "unknown"]
    /\ InitNoTable

\* checkAndResetLeaderboard evaluates shouldResetLeaderboard()
CheckReset ==
    /\ \E c \in Clients :
          shouldReset' = [shouldReset EXCEPT ![c] =
              IF shouldResetLeaderboard(Now, tz[c], lastLeaderboardReset[c])
              THEN "reset" ELSE "keep"]
    /\ UNCHANGED <<tz, lastLeaderboardReset>>
    /\ UNCHANGED <<feed, other, viewVars, acctVars, rankVars, tableVars>>

NextShould == CheckReset

SpecShould == InitShould /\ [][NextShould]_vars

(* ------------------ a reset applied by another browser ------------------ *)
\* .update({timeSpent: 0, isCheckedIn: false, checkInTime: null}) on the
\* row of the logged-in user
resetUser(row) ==
    [row EXCEPT !.timeSpent = 0, !.isCheckedIn = FALSE, !.checkInTime = NoTime]

\* a second browser finds its reset due (checkAndResetLeaderboard), its
\* update reaches the store and it stores its marker
OtherReset ==
    /\ rev = "p000"
    /\ shouldResetLeaderboard(Now, tz[2], lastLeaderboardReset[2])
    /\ db' = resetUser(db)
    /\ lastLeaderboardReset' = [lastLeaderboardReset EXCEPT ![2] = Now]
    /\ ev' = "reset" /\ evAt' = 0
    /\ UNCHANGED <<rev, mono, skew, loggedInUser, lastUpdateTime, tick, pending,
                   sessT, sessP>>
    /\ UNCHANGED <<feed, other, viewVars, rankVars, tz, shouldReset, tableVars>>

NextBoard ==
    \/ handleLogin
    \/ handleCheckIn
    \/ handleCheckOut
    \/ TickFire
    \/ Poll
    \/ StoreResponds
    \/ StoreFails
    \/ Advance
    \/ OtherReset

SpecBoard == InitEdit /\ [][NextBoard]_vars

(* ------------- the first revision with every store call succeeding ----- *)
\* While checked in, the first revision has an update and a fetch in
\* flight at all times (each answer re-runs the effect that sends the
\* next), so a Check Out click or the interval adds one request to those two.
InitCredit == Init /\ rev = "page1"

CheckOutWhileUpdating == checkOutClick(MaxPending + 1)

TickWhileUpdating == intervalFires(MaxPending + 1)

NextCredit ==
    \/ handleLogin
    \/ handleCheckIn
    \/ CheckOutWhileUpdating
    \/ TickWhileUpdating
    \/ StoreResponds
    \/ Advance

SpecCredit == InitCredit /\ [][NextCredit]_vars


(* ---------------- two instances of the page, one user ------------------ *)
\* The user checked in at Epoch and the page was then opened in two browser
\* instances.  The variables loggedInUser, lastUpdateTime, tick, pending,
\* usersList and message[Me] are those of the instance whose event loop
\* runs; other holds the same state of the instance that waits.  The stored
\* row db and the clock are shared.
InitTwo ==
    /\ rev = "p000"
    /\ mono = Epoch
    /\ skew = 0
    /\ db \in {User(UserId, p, TRUE, Epoch) : p \in InitTotals}
    /\ loggedInUser = NoUser
    /\ lastUpdateTime = Epoch
    /\ tick = NoTick
    /\ pending = {}
    /\ ev = "init"
    /\ evAt = 0
    /\ sessT = Epoch
    /\ sessP = db.timeSpent
    /\ usersList = <<>>
    /\ rank = [i \in RankIds |-> NoRank]
    /\ InitNoReset
    /\ InitNoTable

\* the other instance's event loop runs next
OtherInstance ==
    /\ other' = [loggedInUser |-> loggedInUser, lastUpdateTime |-> lastUpdateTime,
                 tick |-> tick, pending |-> pending, usersList |-> usersList,
                 message |-> message[Me]]
    /\ loggedInUser' = other.loggedInUser
    /\ lastUpdateTime' = other.lastUpdateTime
    /\ tick' = other.tick
    /\ pending' = other.pending
    /\ usersList' = other.usersList
    /\ message' = [message EXCEPT ![Me] = other.message]
    /\ ev' = "other" /\ evAt' = 0
    /\ UNCHANGED <<rev, mono, skew, db, sessT, sessP>>
    /\ UNCHANGED <<feed, viewVars, rank, resetVars, loginVars>>

NextTwo ==
    \/ handleLogin
    \/ TickFire
    \/ Poll
    \/ StoreResponds
    \/ StoreFails
    \/ Advance
    \/ OtherInstance

SpecTwo == InitTwo /\ [][NextTwo]_vars

(* --------------------- the users table: login and reset ---------------- *)
\* Rows are numbered by a serial id.  rev is "p000" (handleUserSession,
\* handleWelcomeSubmit, resetLeaderboard) or "page1" (handleLogin).

\* a reset that also clears the display name
resetRow_wipe(row) ==
    [row EXCEPT !.timeSpent = 0, !.isCheckedIn = "false", !.checkInTime = NoTime,
                !.display_name = <<>>]

\* .update({timeSpent: 0, isCheckedIn: false, checkInTime: null}) of a row
resetRow(row) ==
    [row EXCEPT !.timeSpent = 0, !.isCheckedIn = "false", !.checkInTime = NoTime]

\* the update has no filter: it applies to every row
resetLeaderboard(t) == [i \in DOMAIN t |-> resetRow(t[i])]

\* the ids of the rows .eq('email', e) selects
Matches(t, e) == {t[i].id : i \in {j \in DOMAIN t : t[j].email = e}}

\* the row .insert([...]) adds, with the next serial id
insertRow_p000(t, e, dn) ==
    Row(Len(t) + 1, e, BeforeAt(e), dn, 0, "false", NoTime)

insertRow_page1(t, e, ci) ==
    Row(Len(t) + 1, e, BeforeAt(e), <<>>, 0, ci, NoTime)

\* a record that was checked in before the clients start
AnnRow == Row(1, <<"ann", "@", "berkeley.edu">>, <<"ann">>, <<"A">>, 10, "true", Epoch)

InitTable ==
    /\ rev \in {"p000", "page1"}
    /\ mono = LaMidnight
    /\ skew = 0
    /\ db = User(UserId, 0, FALSE, NoTime)
    /\ loggedInUser = NoUser
    /\ lastUpdateTime = mono
    /\ tick = NoTick
    /\ pending = {}
    /\ ev = "init"
    /\ evAt = 0
    /\ sessT = NoTime
    /\ sessP = 0
    /\ usersList = <<>>
    /\ rank = [i \in RankIds |-> NoRank]
    /\ tz = [c \in Clients |-> LaOffset]
    /\ lastLeaderboardReset \in [Clients -> {NoTime, LaMidnight}]
    /\ shouldReset = [c \in Clients |-> "unknown"]
    /\ table \in {<<>>, <<AnnRow>>}
    /\ calls = {}
    /\ session = [c \in Clients |-> NoSession]
    /\ message = [c \in Clients |-> "none"]
    /\ mounted = [c \in Clients |-> TRUE]
    /\ timeouts = [c \in Clients |-> {}]
    /\ other = NoOther
    /\ feed = NoFeed
    /\ timers = NoTimers

Send(call) ==
    /\ calls' = calls \cup {call}
    /\ Cardinality(calls') <= MaxCalls

\* part_000: the auth session of email e reaches handleUserSession;
\* page1: handleLogin is submitted with email e
SignIn(c, e) ==
    /\ mounted[c]
    /\ session[c].userId = 0
    /\ session[c].email \in {<<>>, e}
    /\ session' = [session EXCEPT ![c].email = e]
    /\ Send(Call(c, "select", e, <<>>))
    /\ message' = [message EXCEPT ![c] = IF rev = "page1" THEN "none" ELSE @]
    /\ ev' = "signIn"
    /\ UNCHANGED table
    /\ UNCHANGED <<feed, other, viewVars, acctNoEv, rankVars, resetVars>>

\* the store answers .select().eq('email', e).single(): one matching row
\* is returned, no row or several rows give the error PGRST116
SelectDone(call) ==
    LET found == Matches(table, call.email)
        c == call.c
    IN /\ call.op = "select"
       /\ IF Cardinality(found) = 1
          THEN /\ session' = [session EXCEPT ![c].userId = CHOOSE i \in found : TRUE,
                                              ![c].dialog = FALSE]
               /\ calls' = calls \ {call}
          ELSE IF rev = "p000"
          THEN /\ session' = [session EXCEPT ![c].dialog = TRUE]
               /\ calls' = calls \ {call}
          ELSE /\ session' = session
               /\ calls' = (calls \ {call})
                              \cup {Call(c, "insert", call.email, <<>>)}
       /\ ev' = "select"
       /\ UNCHANGED <<table, message>>
       /\ UNCHANGED <<feed, other, viewVars, acctNoEv, rankVars, resetVars>>

\* the select fails with another error: part_000 falls through both ifs,
\* page1 sets 'Failed to login'
SelectFail(call) ==
    /\ call.op = "select"
    /\ calls' = calls \ {call}
    /\ message' = [message EXCEPT ![call.c] = IF rev = "page1" THEN "error" ELSE @]
    /\ ev' = "selectFailed"
    /\ UNCHANGED <<table, session>>
    /\ UNCHANGED <<feed, other, viewVars, acctNoEv, rankVars, resetVars>>

\* the welcome dialog's form is submitted with initialDisplayName = input
handleWelcomeSubmit(c, input) ==
    /\ rev = "p000"
    /\ mounted[c]
    /\ session[c].dialog
    /\ Send(Call(c, "insert", session[c].email, Trim(input)))
    /\ ev' = "welcome"
    /\ UNCHANGED <<table, session, message>>
    /\ UNCHANGED <<feed, other, viewVars, acctNoEv, rankVars, resetVars>>

\* the store inserts the row and returns it
InsertDone(call) ==
    /\ call.op = "insert"
    /\ Len(table) < MaxRows
    /\ \E ci \in ColumnDefault :
          table' = Append(table,
                      IF rev = "p000"
                      THEN insertRow_p000(table, call.email, call.dn)
                      ELSE insertRow_page1(table, call.email, ci))
    /\ calls' = calls \ {call}
    /\ session' = [session EXCEPT ![call.c].userId = Len(table) + 1,
                                   ![call.c].dialog = FALSE]
    /\ message' = [message EXCEPT ![call.c] = IF rev = "p000" THEN "success" ELSE @]
    /\ ev' = "insert"
    /\ UNCHANGED <<feed, other, viewVars, acctNoEv, rankVars, resetVars>>

InsertFail(call) ==
    /\ call.op = "insert"
    /\ calls' = calls \ {call}
    /\ message' = [message EXCEPT ![call.c] = "error"]
    /\ ev' = "insertFailed"
    /\ UNCHANGED <<table, session>>
    /\ UNCHANGED <<feed, other, viewVars, acctNoEv, rankVars, resetVars>>

\* the bulk update of resetLeaderboard; the effect can run again (and send
\* a second update) while the first is in flight
ResetCall(c) ==
    Call(c, "reset", <<>>,
         IF Call(c, "reset", <<>>, <<>>) \in calls THEN <<"rerun">> ELSE <<>>)

\* the reset-check effect: on mount, on every re-run (new fetchUsers) and
\* every 60000 ms
checkAndResetLeaderboard(c) ==
    /\ rev = "p000"
    /\ mounted[c]
    /\ IF shouldResetLeaderboard(Now, tz[c], lastLeaderboardReset[c])
       THEN /\ shouldReset' = [shouldReset EXCEPT ![c] = "reset"]
            /\ Send(ResetCall(c))
       ELSE /\ shouldReset' = [shouldReset EXCEPT ![c] = "keep"]
            /\ calls' = calls
    /\ ev' = "check"
    /\ UNCHANGED <<table, session, message, tz, lastLeaderboardReset>>
    /\ UNCHANGED <<feed, other, viewVars, acctNoEv, rankVars>>

\* the store applies the reset; resetLeaderboard then writes the marker,
\* shows its success message (a state update of an unmounted component is
\* dropped) and registers the timeout that clears the message
ResetDone(call) ==
    /\ call.op = "reset"
    /\ table' = resetLeaderboard(table)
    /\ calls' = calls \ {call}
    /\ lastLeaderboardReset' = [lastLeaderboardReset EXCEPT ![call.c] = Now]
    /\ message' = [message EXCEPT ![call.c] = IF mounted[call.c] THEN "success" ELSE @]
    /\ timeouts' = [timeouts EXCEPT ![call.c] = @ \cup {mono + MessageMs}]
    /\ ev' = "reset"
    /\ UNCHANGED <<session, tz, shouldReset, mounted, other, feed, timers>>
    /\ UNCHANGED <<acctNoEv, rankVars>>

\* a catch block that stores the marker all the same
resetCatch_marks(marker, c) == [marker EXCEPT ![c] = Now]

\* the markers after the catch block of resetLeaderboard: console.error
\* only, localStorage.setItem was skipped by the throw
resetCatch(marker, c) == marker

\* the reset fails
ResetFail(call) ==
    /\ call.op = "reset"
    /\ calls' = calls \ {call}
    /\ lastLeaderboardReset' = resetCatch(lastLeaderboardReset, call.c)
    /\ ev' = "resetFailed"
    /\ UNCHANGED <<table, session, message, tz, shouldReset>>
    /\ UNCHANGED <<feed, other, viewVars, acctNoEv, rankVars>>

Login == \E c \in Clients, e \in Emails : SignIn(c, e)
LookupAnswered == \E call \in calls : SelectDone(call)
LookupFails == \E call \in calls : SelectFail(call)
Setup == \E c \in Clients, input \in NameInputs : handleWelcomeSubmit(c, input)
Inserted == \E call \in calls : InsertDone(call)
InsertFails == \E call \in calls : InsertFail(call)
ResetCheck == \E c \in Clients : checkAndResetLeaderboard(c)
ResetApplied == \E call \in calls : ResetDone(call)
ResetFails == \E call \in calls : ResetFail(call)

NextTable ==
    \/ Login
    \/ LookupAnswered
    \/ LookupFails
    \/ Setup
    \/ Inserted
    \/ InsertFails
    \/ ResetCheck
    \/ ResetApplied
    \/ ResetFails

SpecTable == InitTable /\ [][NextTable]_vars


(* ------------------------- the magic-link login ------------------------ *)
\* handleLogin of part_000 and of the second revision of page.tsx: the
\* login form asks the authentication service for a magic link.

\* '@berkeley.edu' as tokens
BerkeleySuffix == <<"@", "berkeley.edu">>

\* a test for the text anywhere in the string
endsWith_includes(s, search) ==
    \E i \in 1 .. Len(s) - Len(search) + 1 :
        SubSeq(s, i, i + Len(search) - 1) = search

\* String.prototype.endsWith
endsWith(s, search) ==
    /\ Len(s) >= Len(search)
    /\ SubSeq(s, Len(s) - Len(search) + 1, Len(s)) = search

\* what the user may have typed into the email field
LoginInputs ==
    Emails \cup {<<"ann", "@", "gmail.com">>,
                 <<"ann", "@", "berkeley.edu", " ">>,
                 <<"ann", "@", "berkeley.edu", ".", "evil.com">>,
                 <<"ann", "berkeley.edu">>,
                 <<>>}

\* whether the address a form submission carries is a Berkeley address
Submitted(input) ==
    IF Len(input) >= 2 /\ input[Len(input) - 1] = "@"
       /\ input[Len(input)] = "berkeley.edu"
    THEN "loginValid" ELSE "loginInvalid"

\* the login form is submitted with email = input: setMessage(null), the
\* endsWith guard, then  await supabase.auth.signInWithOtp({email, ...})
handleLogin_otp(c, input) ==
    /\ mounted[c]
    /\ session[c].userId = 0
    /\ IF ~endsWith(input, BerkeleySuffix)
       THEN /\ message' = [message EXCEPT ![c] = "error"]
            /\ calls' = calls
       ELSE /\ message' = [message EXCEPT ![c] = "none"]
            /\ Send(Call(c, "otp", input, <<>>))
    /\ ev' = Submitted(input)
    /\ UNCHANGED <<table, session>>
    /\ UNCHANGED <<feed, other, viewVars, acctNoEv, rankVars, resetVars>>

\* the authentication service has sent the e-mail with the link
OtpDone(call) ==
    /\ call.op = "otp"
    /\ calls' = (calls \ {call}) \cup {Call(call.c, "link", call.email, <<>>)}
    /\ message' = [message EXCEPT ![call.c] = "success"]
    /\ ev' = "otp"
    /\ UNCHANGED <<table, session>>
    /\ UNCHANGED <<feed, other, viewVars, acctNoEv, rankVars, resetVars>>

\* signInError: the catch block shows the error
OtpFail(call) ==
    /\ call.op = "otp"
    /\ calls' = calls \ {call}
    /\ message' = [message EXCEPT ![call.c] = "error"]
    /\ ev' = "otpFailed"
    /\ UNCHANGED <<table, session>>
    /\ UNCHANGED <<feed, other, viewVars, acctNoEv, rankVars, resetVars>>

\* the link is opened: the auth session of its address reaches
\* handleUserSession, which looks the user record up
LinkOpened(call) ==
    /\ rev = "p000"
    /\ call.op = "link"
    /\ mounted[call.c]
    /\ session[call.c].userId = 0
    /\ session[call.c].email \in {<<>>, call.email}
    /\ session' = [session EXCEPT ![call.c].email = call.email]
    /\ calls' = (calls \ {call}) \cup {Call(call.c, "select", call.email, <<>>)}
    /\ ev' = "signIn"
    /\ UNCHANGED <<table, message>>
    /\ UNCHANGED <<feed, other, viewVars, acctNoEv, rankVars, resetVars>>

LoginSubmit == \E c \in Clients, input \in LoginInputs : handleLogin_otp(c, input)
LinkSent == \E call \in calls : OtpDone(call)
LinkFails == \E call \in calls : OtpFail(call)
LinkClicked == \E call \in calls : LinkOpened(call)

InitLogin ==
    /\ rev \in {"p000", "page2"}
    /\ mono = LaMidnight
    /\ skew = 0
    /\ db = User(UserId, 0, FALSE, NoTime)
    /\ loggedInUser = NoUser
    /\ lastUpdateTime = mono
    /\ tick = NoTick
    /\ pending = {}
    /\ ev = "init"
    /\ evAt = 0
    /\ sessT = NoTime
    /\ sessP = 0
    /\ usersList = <<>>
    /\ rank = [i \in RankIds |-> NoRank]
    /\ InitNoReset
    /\ InitNoTable

NextLogin ==
    \/ LoginSubmit
    \/ LinkSent
    \/ LinkFails
    \/ LinkClicked
    \/ LookupAnswered
    \/ LookupFails
    \/ Setup
    \/ Inserted
    \/ InsertFails

SpecLogin == InitLogin /\ [][NextLogin]_vars


(* ------------------- realtime changes of the users table --------------- *)
\* The subscription of the first revision of page.tsx and of part_002:
\* channel('users_db_changes').on('postgres_changes', {event: '*', table:
\* 'users', filter: 'isCheckedIn=eq.true'}, handler).  feed.events are the
\* change events the store has sent and the browser has not yet handled.

NoRow == Row(0, <<>>, <<>>, <<>>, 0, "null", NoTime)

Payload(type, new, old) == [eventType |-> type, new |-> new, old |-> old]

\* an UPDATE handler that leaves the changed row where it was
handleUpdate_inPlace(prevUsers, new) ==
    LET index == FindIndex(prevUsers, new.id, 0)
    IN IF index # 0 - 1 THEN [prevUsers EXCEPT ![index + 1] = new]
       ELSE Append(prevUsers, new)

\* payload.eventType === 'UPDATE'
handleUpdate(prevUsers, new) ==
    LET index == FindIndex(prevUsers, new.id, 0)
        updatedUsers == IF index # 0 - 1 THEN [prevUsers EXCEPT ![index + 1] = new]
                        ELSE Append(prevUsers, new)
    IN SortByTimeSpent(updatedUsers, <<>>)

\* payload.eventType === 'INSERT'
handleInsert(prevUsers, new) == SortByTimeSpent(Append(prevUsers, new), <<>>)

\* payload.eventType === 'DELETE'
handleDelete(prevUsers, old) ==
    SortByTimeSpent(SelectSeq(prevUsers, LAMBDA user : user.id # old.id), <<>>)

\* the postgres_changes callback: the users state after setUsers(...)
postgresChanges(prevUsers, payload) ==
    CASE payload.eventType = "UPDATE" -> handleUpdate(prevUsers, payload.new)
      [] payload.eventType = "INSERT" -> handleInsert(prevUsers, payload.new)
      [] payload.eventType = "DELETE" -> handleDelete(prevUsers, payload.old)
      [] OTHER -> prevUsers

\* the store sends a change event when the changed row passes the filter
Published(events, payload, passes) ==
    IF passes THEN Append(events, payload) ELSE events

\* a row is inserted into users: by this application with the column
\* default of isCheckedIn, or by another writer with isCheckedIn true
RowInserted ==
    /\ feed.lastId < MaxRows
    /\ feed.changes < MaxChanges
    /\ \E ts \in RankTotals, ci \in {"true", "false"} :
          LET new == Row(feed.lastId + 1, <<>>, <<>>, <<>>, ts, ci, NoTime)
          IN /\ table' = Append(table, new)
             /\ feed' = [events |-> Published(feed.events,
                                       Payload("INSERT", new, NoRow), ci = "true"),
                         lastId |-> feed.lastId + 1,
                         changes |-> feed.changes + 1]
    /\ Len(feed'.events) <= MaxQueue
    /\ ev' = "insert"
    /\ UNCHANGED <<calls, session, message, usersList, rank>>
    /\ UNCHANGED <<other, viewVars, acctNoEv, resetVars>>

\* some client's check-in, check-out or tick updates a row
RowUpdated ==
    /\ feed.changes < MaxChanges
    /\ \E p \in DOMAIN table, ts \in RankTotals, ci \in {"true", "false"} :
          LET new == [table[p] EXCEPT !.timeSpent = ts, !.isCheckedIn = ci]
          IN /\ new # table[p]
             /\ table' = [table EXCEPT ![p] = new]
             /\ feed' = [feed EXCEPT !.events =
                            Published(@, Payload("UPDATE", new, table[p]), ci = "true"),
                                      !.changes = @ + 1]
    /\ Len(feed'.events) <= MaxQueue
    /\ ev' = "update"
    /\ UNCHANGED <<calls, session, message, usersList, rank>>
    /\ UNCHANGED <<other, viewVars, acctNoEv, resetVars>>

\* a row is deleted; whether the store applies the filter to a DELETE
\* event is not determined by the repository
RowDeleted ==
    /\ feed.changes < MaxChanges
    /\ \E p \in DOMAIN table, sent \in BOOLEAN :
          /\ table' = SubSeq(table, 1, p - 1) \o SubSeq(table, p + 1, Len(table))
          /\ feed' = [feed EXCEPT !.events =
                         Published(@, Payload("DELETE", NoRow, table[p]), sent),
                                   !.changes = @ + 1]
    /\ Len(feed'.events) <= MaxQueue
    /\ ev' = "delete"
    /\ UNCHANGED <<calls, session, message, usersList, rank>>
    /\ UNCHANGED <<other, viewVars, acctNoEv, resetVars>>

\* the store answers fetchUsers:
\* select('*').order('timeSpent', {ascending: false})
FetchAnswered ==
    /\ Send([c |-> Me, op |-> "users", rows |-> SortByTimeSpent(table, <<>>)])
    /\ ev' = "select"
    /\ UNCHANGED <<table, session, message, usersList, rank, feed>>
    /\ UNCHANGED <<other, viewVars, acctNoEv, resetVars>>

\* the answer arrives: setUsers(data)
FetchArrives ==
    /\ \E call \in calls :
          /\ call.op = "users"
          /\ usersList' = call.rows
          /\ calls' = calls \ {call}
    /\ ev' = "fetch"
    /\ UNCHANGED <<table, session, message, rank, feed>>
    /\ UNCHANGED <<other, viewVars, acctNoEv, resetVars>>

\* the browser handles the oldest undelivered change event; evAt keeps the
\* length the users list had before it
ChangeReceived ==
    /\ feed.events # <<>>
    /\ usersList' = postgresChanges(usersList, Head(feed.events))
    /\ feed' = [feed EXCEPT !.events = Tail(@)]
    /\ ev' = Head(feed.events).eventType
    /\ evAt' = Len(usersList)
    /\ UNCHANGED <<rev, mono, skew, db, loggedInUser, lastUpdateTime, tick, pending,
                   sessT, sessP>>
    /\ UNCHANGED <<table, calls, session, message, rank>>
    /\ UNCHANGED <<other, viewVars, resetVars>>

InitFeed ==
    /\ rev \in {"page1", "p002"}
    /\ mono = Epoch
    /\ skew = 0
    /\ db = User(UserId, 0, FALSE, NoTime)
    /\ loggedInUser = NoUser
    /\ lastUpdateTime = Epoch
    /\ tick = NoTick
    /\ pending = {}
    /\ ev = "init"
    /\ evAt = 0
    /\ sessT = NoTime
    /\ sessP = 0
    /\ usersList = <<>>
    /\ rank = [i \in RankIds |-> NoRank]
    /\ InitNoReset
    /\ table \in {<<>>, <<AnnRow>>}
    /\ calls = {}
    /\ session = [c \in Clients |-> NoSession]
    /\ message = [c \in Clients |-> "none"]
    /\ mounted = [c \in Clients |-> TRUE]
    /\ timeouts = [c \in Clients |-> {}]
    /\ other = NoOther
    /\ feed = [events |-> <<>>, lastId |-> Len(table), changes |-> 0]
    /\ timers = NoTimers

NextFeed ==
    \/ RowInserted
    \/ RowUpdated
    \/ RowDeleted
    \/ FetchAnswered
    \/ FetchArrives
    \/ ChangeReceived

SpecFeed == InitFeed /\ [][NextFeed]_vars

(* ------------------------ teardown of the view ------------------------- *)
\* the page component of browser c is unmounted: the cleanup functions of
\* its effects run (clearInterval of the polls, the tick and the reset
\* check; subscription.unsubscribe()); nothing clears the timeout
Unmount(c) ==
    /\ mounted[c]
    /\ mounted' = [mounted EXCEPT ![c] = FALSE]
    /\ ev' = "unmount"
    /\ timers' = (IF c = Me THEN tickCleanup(timers) ELSE timers)
    /\ UNCHANGED <<feed, other, timeouts, acctNoEv, rankVars, resetVars, tableVars>>

\* a timeout registered by resetLeaderboard fires: setMessage(null)
clearMessage(c, due) ==
    /\ due \in timeouts[c]
    /\ mono >= due
    /\ timeouts' = [timeouts EXCEPT ![c] = @ \ {due}]
    /\ message' = [message EXCEPT ![c] = IF mounted[c] THEN "none" ELSE @]
    /\ ev' = "timeout"
    /\ UNCHANGED <<feed, other, mounted, timers, acctNoEv, rankVars, resetVars, loginVars>>

\* MessageMs pass on the clock
Wait ==
    /\ mono < LaMidnight + MaxWait * MessageMs
    /\ mono' = mono + MessageMs
    /\ ev' = "wait"
    /\ UNCHANGED <<rev, skew, db, loggedInUser, lastUpdateTime, tick, pending,
                   evAt, sessT, sessP>>
    /\ UNCHANGED <<feed, other, viewVars, rankVars, resetVars, tableVars>>

\* an existing table and browsers that may hold a marker of this day
InitView == InitTable /\ rev = "p000" /\ table # <<>>

Teardown == \E c \in Clients : Unmount(c)
MessageTimeout == \E c \in Clients : \E due \in timeouts[c] : clearMessage(c, due)

NextView ==
    \/ ResetCheck
    \/ ResetApplied
    \/ ResetFails
    \/ Teardown
    \/ MessageTimeout
    \/ Wait

SpecView == InitView /\ [][NextView]_vars


(* --------------------- the tick effect's intervals --------------------- *)
\* The effect that registers the accounting interval, in the first revision
\* of page.tsx (dependencies [loggedInUser]), part_002 ([loggedInUser,
\* fetchUsers, lastUpdateTime]) and part_000 ([loggedInUser?.isCheckedIn,
\* loggedInUser?.checkInTime]).

\* the condition under which the effect body calls setInterval
tickCondition(lu) ==
    IF rev = "p000" THEN lu.isCheckedIn /\ Truthy(lu.checkInTime)
    ELSE lu.isCheckedIn

\* the effect body with a fresh  let intervalId
tickBody(t, lu) ==
    IF tickCondition(lu)
    THEN [registered |-> t.registered \cup {t.last + 1},
          intervalId |-> t.last + 1, last |-> t.last + 1]
    ELSE [t EXCEPT !.intervalId = 0]

\* a re-run of the effect: the previous run's cleanup, then the body
tickEffect(t, lu) == tickBody(tickCleanup(t), lu)

\* whether a dependency of the effect changed; every setLoggedInUser of
\* the handlers installs a new object
tickDeps(old, new) ==
    IF rev = "p000"
    THEN old.isCheckedIn # new.isCheckedIn \/ old.checkInTime # new.checkInTime
    ELSE TRUE

\* the values setLoggedInUser is called with: null, the row of a fetch, of
\* a check-in, a check-out or a tick
TimerUsers ==
    {NoUser} \cup
    {User(UserId, ts, c[1], c[2]) :
        ts \in {0, 1},
        c \in {<<FALSE, NoTime>>, <<FALSE, Epoch>>, <<TRUE, NoTime>>,
               <<TRUE, Epoch>>, <<TRUE, Epoch + MinuteMs>>}}

\* setLoggedInUser(new) in a mounted component, then the effects re-run
setLoggedInUser ==
    /\ mounted[Me]
    /\ \E new \in TimerUsers :
          /\ loggedInUser' = new
          /\ timers' = (IF tickDeps(loggedInUser, new)
                        THEN tickEffect(timers, new) ELSE timers)
    /\ timers'.last <= MaxRuns
    /\ ev' = "render"
    /\ UNCHANGED <<rev, mono, skew, db, lastUpdateTime, tick, pending,
                   evAt, sessT, sessP>>
    /\ UNCHANGED <<feed, other, mounted, timeouts, rankVars, resetVars, tableVars>>

\* setLastUpdateTime(now) in part_002
setLastUpdateTime ==
    /\ rev = "p002"
    /\ mounted[Me]
    /\ lastUpdateTime' = lastUpdateTime + MinuteMs
    /\ lastUpdateTime' <= Epoch + MaxRuns * MinuteMs
    /\ timers' = tickEffect(timers, loggedInUser)
    /\ timers'.last <= MaxRuns
    /\ ev' = "render"
    /\ UNCHANGED <<rev, mono, skew, db, loggedInUser, tick, pending,
                   evAt, sessT, sessP>>
    /\ UNCHANGED <<feed, other, mounted, timeouts, rankVars, resetVars, tableVars>>

InitTimers == Init /\ rev \in {"page1", "p002", "p000"}

NextTimers ==
    \/ setLoggedInUser
    \/ setLastUpdateTime
    \/ Teardown

SpecTimers == InitTimers /\ [][NextTimers]_vars

(* ------------------------------- claims -------------------------------- *)
\* sessT, sessP: the checkInTime stored by the check-in that opened the
\* current (or last) session and the stored total the session started with.

\* C1: the minutes added to the stored timeSpent since a check-in never
\* exceed floor((now - original check-in time) / 60000): the periodic tick
\* and the check-out never credit the same elapsed minute twice.
C1_NoOverCredit ==
    (rev \in {"page1", "p000", "p001", "p002"} /\ sessT # NoTime)
        => db.timeSpent - sessP <= TimeElapsed(Now, sessT)

\* C2: after a successful check-out at time N of a session that started
\* with stored total P at check-in time T, the stored record has
\* isCheckedIn = false, checkInTime = null and
\* timeSpent = P + floor((N - T) / 60000).
C2_CheckOutTotal ==
    (rev \in {"p000", "page1"} /\ ev = "checkOut")
        => /\ db.isCheckedIn = FALSE
           /\ db.checkInTime = NoTime
           /\ db.timeSpent = sessP + TimeElapsed(evAt, sessT)

\* C3: for the stored record and for the client's loggedInUser, checkInTime
\* is set if and only if isCheckedIn is true.
C3_CheckInTimeIffCheckedIn ==
    /\ (db.checkInTime # NoTime) <=> db.isCheckedIn
    /\ loggedInUser # NoUser
          => ((loggedInUser.checkInTime # NoTime) <=> loggedInUser.isCheckedIn)

\* C4: the stored timeSpent never decreases across check-in, tick,
\* check-out and poll events.
C4_TimeSpentMonotone ==
    [][rev = "p000" => db'.timeSpent >= db.timeSpent]_vars

\* C5: a check-in that reaches the store while the stored record is already
\* checked in writes nothing and leaves the open session's checkInTime
\* unchanged.
C5_SecondCheckInRejected ==
    [][(rev = "p000" /\ ev' = "checkIn" /\ db.isCheckedIn) => db' = db]_vars

\* C6: a check-out that reaches the store when the user is not checked in
\* changes nothing: of two check-outs issued for the same session only the
\* first changes the record.
C6_SecondCheckOutRejected ==
    [][(rev \in {"page1", "p001"} /\ ev' = "checkOut" /\ ~db.isCheckedIn)
          => db' = db]_vars

\* C7: a successful check-in sets isCheckedIn = true and checkInTime = now
\* in the stored record and leaves the stored timeSpent exactly as it was
\* immediately before the check-in.
C7_CheckInPreservesTimeSpent ==
    [][(rev = "p000" /\ ev' = "checkIn")
          => /\ db'.isCheckedIn
             /\ db'.checkInTime = evAt'
             /\ db'.timeSpent = db.timeSpent]_vars

\* C8: when the current time is earlier than the recorded checkInTime, the
\* elapsed minutes a tick or a check-out credits are exactly 0.
C8_ClockSkewClamped ==
    \A r \in pending :
        (rev \in {"page1", "p001"} /\ r.op \in {"tick", "checkOut"}
           /\ Truthy(r.snap.checkInTime)
           /\ r.at < r.snap.checkInTime) => r.k = 0

\* C9: during one open session every tick writes the total at check-in
\* plus the whole minutes elapsed since the original check-in, so ticks do
\* not re-accumulate and ticks at the same instant write the same value.
C9_TickRecomputesFromOrigin ==
    \A r \in pending :
        (rev \in {"page1", "p001", "p002"} /\ r.op = "tick"
           /\ db.isCheckedIn /\ sessT # NoTime /\ r.at >= sessT)
           => r.snap.timeSpent + r.k = sessP + TimeElapsed(r.at, sessT)

\* C10: for a user present in the list, getUserRank returns its 1-based
\* position when the list is ordered by timeSpent descending with records
\* of equal timeSpent kept in their input order; repeated calls on the same
\* input return the same rank.
C10_RankIsStablePosition ==
    \A p \in 1 .. Len(usersList) :
        rank[usersList[p].id] # NoRank =>
            rank[usersList[p].id] =
                1 + Cardinality({q \in 1 .. Len(usersList) :
                        \/ usersList[q].timeSpent > usersList[p].timeSpent
                        \/ /\ usersList[q].timeSpent = usersList[p].timeSpent
                           /\ q < p})

\* totals 30, 30, 10 in that order have been ranked 1, 2, 3
C10_Witness ==
    /\ Len(usersList) = 3
    /\ usersList[1].timeSpent = 30 /\ usersList[2].timeSpent = 30
    /\ usersList[3].timeSpent = 10
    /\ rank[usersList[1].id] = 1
    /\ rank[usersList[2].id] = 2
    /\ rank[usersList[3].id] = 3

\* C11: a rank lookup for a user id that is not in the record list returns
\* the number of records plus one, never 0 and never the rank of a record
\* that is in the list.
C11_AbsentIdRanksLast ==
    \A i \in RankIds :
        (/\ rev = "p000"
         /\ rank[i] # NoRank
         /\ \A p \in 1 .. Len(usersList) : usersList[p].id # i)
            => rank[i] = Len(usersList) + 1

\* the most recent Los Angeles midnight at or before instant t
LastLaMidnight(t) == ((t + LaOffset) \div DayMs) * DayMs - LaOffset

\* C12: shouldResetLeaderboard returns true exactly when no last-reset
\* timestamp is recorded or the recorded instant is strictly before the
\* most recent Los Angeles midnight at or before now.
C12_ResetDueSinceLaMidnight ==
    \A c \in Clients :
        shouldReset[c] # "unknown" =>
            ((shouldReset[c] = "reset") <=>
                \/ lastLeaderboardReset[c] = NoTime
                \/ lastLeaderboardReset[c] < LastLaMidnight(Now))

\* C13: two clients holding the same last-reset value that evaluate the
\* check at the same instant reach the same decision, whatever their local
\* timezone offsets are.
C13_DecisionIgnoresLocalZone ==
    \A c, d \in Clients :
        (/\ shouldReset[c] # "unknown"
         /\ shouldReset[d] # "unknown"
         /\ lastLeaderboardReset[c] = lastLeaderboardReset[d])
            => shouldReset[c] = shouldReset[d]

\* C14: a successful resetLeaderboard leaves every stored record with
\* timeSpent = 0, isCheckedIn = false and checkInTime = null and changes no
\* other field (id, email, name, display_name) of any record.
C14_ResetZeroesTimeFieldsOnly ==
    [][ev' = "reset" =>
          /\ Len(table') = Len(table)
          /\ \A i \in 1 .. Len(table) :
                table'[i] = Row(table[i].id, table[i].email, table[i].name,
                                table[i].display_name, 0, "false", NoTime)]_vars

\* a reset was applied to a table whose first record was checked in with
\* 10 minutes and display name A: its time fields are cleared, the rest kept
C14_Witness ==
    /\ ev = "reset"
    /\ Len(table) >= 1
    /\ table[1] = Row(1, <<"ann", "@", "berkeley.edu">>, <<"ann">>, <<"A">>,
                       0, "false", NoTime)

\* C20: a user record is created only on login with an email that has no
\* record yet, with timeSpent = 0, isCheckedIn = false and name equal to the
\* part of the email before '@'; a login with an email that already has a
\* record creates nothing and leaves the record's timeSpent, isCheckedIn and
\* checkInTime unchanged.
C20_RecordCreatedOnFirstLogin ==
    [][/\ Len(table') # Len(table) =>
             LET new == table'[Len(table')] IN
             /\ Len(table') = Len(table) + 1
             /\ ev' = "insert"
             /\ Matches(table, new.email) = {}
             /\ new.timeSpent = 0
             /\ new.isCheckedIn = "false"
             /\ Len(new.name) < Len(new.email)
             /\ new.email[Len(new.name) + 1] = "@"
             /\ \A k \in 1 .. Len(new.name) :
                   new.name[k] = new.email[k] /\ new.name[k] # "@"
       /\ ev' \in {"signIn", "select"} => table' = table]_vars

\* C17: when the store update of a check-in, a check-out or a display-name
\* edit fails, loggedInUser and the users list stay exactly as they were
\* before the operation (neither issuing the request nor its failure
\* changes them) and an error message is set.
C17_FailedUpdateLeavesState ==
    [][/\ ev' \in {"checkInFailed", "checkOutFailed", "renameFailed"}
            => /\ loggedInUser' = loggedInUser
               /\ usersList' = usersList
               /\ message'[Me] = "error"
       /\ (\E r \in pending' \ pending : r.op \in {"checkIn", "checkOut", "rename"})
            => /\ loggedInUser' = loggedInUser
               /\ usersList' = usersList]_vars

\* the check-out of a checked-in user with a fetched users list has failed
C17_Witness ==
    /\ ev = "checkOutFailed"
    /\ loggedInUser.isCheckedIn
    /\ usersList # <<>>
    /\ message[Me] = "error"

\* the three fields of a user record that the view shows for the account
Shown(u) == <<u.timeSpent, u.isCheckedIn, u.checkInTime>>

\* C16: the timeSpent, isCheckedIn and checkInTime shown for the logged-in
\* user always equal values the store has confirmed: a step that changes
\* what is shown sets it to the row the store holds after that step (the row
\* a successful read or write returned), never to a value whose write has
\* failed or has not completed.
C16_ShownValuesAreConfirmed ==
    [][(/\ rev = "p000"
        /\ loggedInUser' # NoUser
        /\ Shown(loggedInUser') # Shown(loggedInUser))
          => Shown(loggedInUser') = Shown(db')]_vars

\* the names of the steps in which the store rejects a write
WriteFailures ==
    {FailedEv(op) : op \in {"checkIn", "checkOut", "tick", "rename", "reset"}}

\* C18: every failure of a store write (check-in, check-out, the accounting
\* tick's time update, the bulk reset) sets an error message for the user,
\* and the client does not send the failed write again by itself: the step
\* that handles the failure puts no write in flight.
C18_WriteFailureIsSurfaced ==
    [][(rev = "p000" /\ ev' \in WriteFailures)
          => /\ message'[Me] = "error"
             /\ \A q \in pending' \ pending : q.op = "fetch"]_vars

\* C15: a session open when the reset is applied is discarded: once the
\* reset has been applied at instant R and the stored row is as the reset
\* left it, a tick or check-out that the client sends after R from a
\* checked-in snapshot taken before R leaves a stored timeSpent of at most
\* the whole minutes elapsed since R, so neither the pre-reset total nor
\* minutes from before the reset are written back.
C15_OpenSessionDiscardedByReset ==
    [][\A r \in pending \ pending' :
          (/\ r.op \in {"tick", "checkOut"}
           /\ ev' \notin WriteFailures
           /\ lastLeaderboardReset[2] # NoTime
           /\ db = resetUser(db)
           /\ r.at > lastLeaderboardReset[2]
           /\ r.snap.isCheckedIn
           /\ r.snap.checkInTime < lastLeaderboardReset[2])
             => db'.timeSpent <= TimeElapsed(r.at, lastLeaderboardReset[2])]_vars

\* C19: after the view of a browser is torn down, none of its timers
\* remains scheduled: the polls, the tick and the reset check are cleared
\* by the effect cleanups, and no message-clearing timeout is left to fire.
C19_NoTimerAfterUnmount ==
    \A c \in Clients : ~mounted[c] => timeouts[c] = {}

\* C21: after any interleaving of logins and first-time setups of the
\* clients, no two stored user records have the same email.
C21_EmailsAreUnique ==
    \A i, j \in DOMAIN table : i # j => table[i].email # table[j].email

\* the name column of the account's record (email.split('@')[0])
UserName == BeforeAt(<<"ann", "@", "berkeley.edu">>)

\* {user.display_name || user.name}: the label rendered for a user
Label(u) == IF u.display_name # <<>> THEN u.display_name ELSE UserName

\* C22: the label displayed for a user is the display name when one is set
\* and the email-derived name otherwise; in the step in which a
\* display-name edit succeeds, the label shown for the logged-in user
\* becomes the new display name.
C22_LabelShowsNewDisplayName ==
    [][\A r \in pending \ pending' :
          (/\ r.op = "rename"
           /\ ev' \notin WriteFailures
           /\ loggedInUser' # NoUser)
             => Label(loggedInUser') = r.dn]_vars

\* C23: first revision of page.tsx, every store call succeeding: a session
\* that lasted at least one full minute is credited at least one minute, so
\* when a check-out clicked 60000 ms or more after the session's check-in
\* has been applied, the stored timeSpent exceeds the total the session
\* started with.
C23_FullMinuteIsCredited ==
    [][(/\ ev' = "checkOut"
        /\ sessT # NoTime
        /\ evAt' >= sessT + MinuteMs)
          => db'.timeSpent >= sessP + 1]_vars

\* C24: with a user logged in and nothing else happening, the chain
\* fetchUsers -> setLoggedInUser -> new fetchUsers -> effect re-run ends:
\* a fetch answer that leaves the store and the client's loggedInUser as
\* they were sends no further request, so one request fewer is in flight.
C24_UnchangedAnswerEndsChain ==
    [][(/\ rev \in {"page1", "p002", "p000"}
        /\ ev' = "fetch"
        /\ loggedInUser # NoUser
        /\ loggedInUser' = loggedInUser
        /\ db' = db)
          => Cardinality(pending') < Cardinality(pending)]_vars

\* C25: the bulk reset is applied to the store at most once per daily
\* boundary: when a reset is applied, no browser holds a marker of a reset
\* already applied since the latest Los Angeles midnight.
C25_ResetOncePerDay ==
    [][ev' = "reset"
          => \A c \in Clients :
                \/ lastLeaderboardReset[c] = NoTime
                \/ lastLeaderboardReset[c] < LastLaMidnight(Now)]_vars

\* the browser whose reset update has just been rejected
FailedReset(c) ==
    \E call \in calls \ calls' : call.op = "reset" /\ call.c = c

\* C26 as stated: when the bulk reset update fails, the marker is not
\* written and no success message is shown, so shouldResetLeaderboard of
\* that browser still returns true at the next check; the marker is
\* written only after a successful update.
C26_FailedResetStaysDue ==
    [][/\ \A c \in Clients :
             (ev' = "resetFailed" /\ FailedReset(c))
                => /\ lastLeaderboardReset' = lastLeaderboardReset
                   /\ message' = message
                   /\ shouldResetLeaderboard(Now, tz[c], lastLeaderboardReset'[c])
       /\ lastLeaderboardReset' # lastLeaderboardReset => ev' = "reset"]_vars

\* C26 amended: a failed bulk reset update writes no marker and shows no
\* success message, so it leaves the result of shouldResetLeaderboard as it
\* was before the failure; the marker is written only after a successful
\* update.
C26_FailedResetWritesNoMarker ==
    [][/\ ev' = "resetFailed"
             => /\ lastLeaderboardReset' = lastLeaderboardReset
                /\ message' = message
                /\ timeouts' = timeouts
       /\ lastLeaderboardReset' # lastLeaderboardReset => ev' = "reset"]_vars

\* a reset of a browser without a marker has failed and is still due
C26_Witness ==
    /\ ev = "resetFailed"
    /\ \E c \in Clients :
          /\ lastLeaderboardReset[c] = NoTime
          /\ shouldReset[c] = "reset"
          /\ message[c] = "none"


\* C27: with two instances of the page logged in as the same checked-in
\* user, each polling and ticking on its own, the stored timeSpent never
\* exceeds the total at check-in by more than the whole minutes elapsed
\* since the check-in: a minute is credited once, not once per instance.
C27_MinuteCreditedOnceInTotal ==
    db.timeSpent - sessP <= TimeElapsed(Now, sessT)

\* both instances have run their accounting callback for the first minute
\* (each set its own checkInTime to the instant of the callback) and the
\* store has applied both writes
C27_Witness ==
    /\ rev = "p000"
    /\ loggedInUser # NoUser /\ other.loggedInUser # NoUser
    /\ loggedInUser.checkInTime = sessT + MinuteMs
    /\ loggedInUser.timeSpent = sessP + 1
    /\ other.loggedInUser.checkInTime = sessT + MinuteMs
    /\ other.loggedInUser.timeSpent = sessP + 1
    /\ \A r \in pending \cup other.pending : r.op # "tick"
    /\ db.timeSpent = sessP + 1


\* C28: for a logged-in user who is in the users list, the rank the user
\* card shows (getUserRank) is one plus the index of that user's row in the
\* rendered leaderboard table, also when timeSpent values are tied.
\* (After RenderPage usersList is the array in the order of the table rows.)
C28_CardRankIsTableRow ==
    \A i \in RankIds :
        (rank[i] # NoRank /\ FindIndex(usersList, i, 0) # 0 - 1)
            => rank[i] = 1 + FindIndex(usersList, i, 0)

\* the page was rendered for a user whose row is the second of two rows
\* with the same timeSpent
C28_Witness ==
    /\ ev = "render"
    /\ \E p \in 2 .. Len(usersList) :
          /\ usersList[p].timeSpent = usersList[p - 1].timeSpent
          /\ rank[usersList[p].id] = p
          /\ rank[usersList[p - 1].id] = p - 1


\* C29: after any sequence of realtime UPDATE, INSERT and DELETE events and
\* refetches, the users list holds at most one entry per user id.
C29_OneEntryPerId ==
    \A p, q \in DOMAIN usersList :
        p # q => usersList[p].id # usersList[q].id


\* ordered by timeSpent, largest first
Descending(list) ==
    \A p \in 1 .. Len(list) - 1 : list[p].timeSpent >= list[p + 1].timeSpent

\* the number of entries of list equal to row u
Count(list, u) == Cardinality({p \in DOMAIN list : list[p] = u})

\* C30: after every realtime UPDATE, INSERT or DELETE event the users list
\* is ordered by timeSpent descending, and a DELETE event removes the
\* entries with the deleted id and nothing else: every entry with another
\* id is kept, and no entry is added.
C30_EventKeepsOrderAndDeletesById ==
    [][ev' \in {"UPDATE", "INSERT", "DELETE"} =>
          /\ Descending(usersList')
          /\ ev' = "DELETE" =>
                LET old == Head(feed.events).old
                IN /\ \A p \in DOMAIN usersList' : usersList'[p].id # old.id
                   /\ \A p \in DOMAIN usersList :
                         usersList[p].id # old.id =>
                            Count(usersList', usersList[p]) = Count(usersList, usersList[p])
                   /\ Len(usersList') =
                         Len(usersList) - Cardinality({p \in DOMAIN usersList :
                                                         usersList[p].id = old.id})]_vars

\* a DELETE event has just been handled: it took one entry out of a list
\* of two and left the row the table still has
C30_Witness ==
    /\ ev = "DELETE"
    /\ evAt = 2
    /\ Len(usersList) = 1
    /\ table = usersList


\* C31: at any moment at most one accounting-tick interval is registered
\* in the view (a re-run of the tick effect clears the previous interval
\* before it registers a new one), and none is registered while the
\* logged-in user is not checked in.
C31_OneTickInterval ==
    /\ Cardinality(timers.registered) <= 1
    /\ ~loggedInUser.isCheckedIn => timers.registered = {}

\* the effect has re-run for a checked-in user and the interval of its
\* second or later registration is the only one set
C31_Witness ==
    /\ mounted[Me]
    /\ loggedInUser.isCheckedIn
    /\ timers.last >= 2
    /\ timers.registered = {timers.last}


\* C32: sign-out sets the client's loggedInUser to null and writes nothing
\* to the stored record: timeSpent, isCheckedIn and checkInTime in the store
\* are the same after the sign-out as before, so a user who signs out while
\* checked in stays checked in in the store.
C32_SignOutWritesNothing ==
    [][ev' = "signOut" =>
          /\ loggedInUser' = NoUser
          /\ Shown(db') = Shown(db)
          /\ db.isCheckedIn => db'.isCheckedIn]_vars

\* a user has signed out while the store has them checked in
C32_Witness ==
    /\ ev = "signOut"
    /\ loggedInUser = NoUser
    /\ db.isCheckedIn
    /\ Truthy(db.checkInTime)


\* C33: a login attempt with an email that does not end with
\* '@berkeley.edu' is rejected before any request: no magic link is
\* requested, no user record is read or created, loggedInUser (the login
\* flow's session) is unchanged, and an error message is set in the browser
\* of the attempt and in no other.
C33_ForeignEmailRejected ==
    [][ev' = "loginInvalid" =>
          /\ calls' = calls
          /\ table' = table
          /\ session' = session
          /\ loggedInUser' = loggedInUser
          /\ \E c \in Clients :
                /\ message'[c] = "error"
                /\ \A d \in Clients \ {c} : message'[d] = message[d]]_vars

\* an attempt has just been rejected while the browser showed the success
\* message of an earlier, accepted attempt whose link is still unopened
C33_Witness ==
    /\ ev = "loginInvalid"
    /\ \E call \in calls : call.op = "link" /\ message[call.c] = "error"

====
